---- MODULE Spec2Model ----
(***************************************************************************)
(* Market dashboard: the fetch layer (services/marketService.ts), the      *)
(* aggregation loop and the view state of App (App.tsx).                    *)
(*                                                                         *)
(* Two specifications share the module.  FetchSpec runs one accessor       *)
(* invocation at a time, its upstream requests settling in any order with  *)
(* responses drawn from bounded sets.  Spec runs the App component: the    *)
(* effect, the interval timer, overlapping loadAllData cycles and the      *)
(* user controls; there every accessor result is computed by the same      *)
(* accessor operators from the responses of an upstream feed.              *)
(*                                                                         *)
(* JavaScript values are records tagged by a "type" field.  A double is    *)
(* either NaN or an exact fraction [num, den] in lowest terms.             *)
(***************************************************************************)
EXTENDS Integers, Sequences, FiniteSets, TLC

VARIABLES
  \* ---- FetchSpec: one accessor invocation ----
  fxFn,      \* the accessor running: "idle", "btc", "gold", "funding", "highlow", "chart"
  fxArg,     \* its inputs: the symbol (highlow), the time frame (chart), Math.random()
  fxReqs,    \* the requests it issued, in issue order
  fxResp,    \* per request: NotSettled, or the response fetch got for it
  fxRet,     \* the promise the accessor returned: Pending, Fulfilled(v) or Rejected
  \* ---- Spec: the App component ----
  btcData, goldData, chartData, fundingData, highLowBtc, highLowGold,
  timeFrame, chartMode, loading, lastUpdated,
  mounted,   \* the component is mounted (its effect has run, no unmount yet)
  timers,    \* the active setInterval timers, each the timeFrame its callback closed over
  cycles,    \* the loadAllData invocations awaiting Promise.all, oldest first
  \* ---- PanelSpec: the AIAnalysisPanel component ----
  apiKey,      \* process.env.API_KEY: undefined, or a string
  analysis,    \* the analysis text
  isAnalyzing,
  runs,        \* the handleAnalyze invocations awaiting runDeepLearningAnalysis
  requests     \* the generateContent calls issued so far

fetchVars == <<fxFn, fxArg, fxReqs, fxResp, fxRet>>
snapshot  == <<btcData, goldData, fundingData, highLowBtc, highLowGold, chartData, lastUpdated>>
appVars   == <<btcData, goldData, chartData, fundingData, highLowBtc, highLowGold,
               timeFrame, chartMode, loading, lastUpdated, mounted, timers, cycles>>
panelVars == <<apiKey, analysis, isAnalyzing, runs, requests>>
vars      == <<fetchVars, appVars, panelVars>>

----------------------------------------------------------------------------
(* Bounds of the model *)

\* candles per klines response of the feeds (the code asks for up to `limit`)
MaxCandles == 2
\* loadAllData cycles that may be in flight together
MaxInFlight == 2
\* generateContent calls one mounted panel may issue
MaxRequests == 3
\* distinct wall-clock readings new Date() may return
NumTimes == 1

----------------------------------------------------------------------------
(* JavaScript numbers *)

NaN == [nan |-> TRUE]

RECURSIVE GCD(_, _)
GCD(a, b) == IF b = 0 THEN a ELSE GCD(b, a % b)

Abs(n) == IF n < 0 THEN -n ELSE n

\* the fraction n/d (d # 0) in lowest terms with a positive denominator
Frac(n, d) ==
  LET g == GCD(Abs(n), Abs(d))
      s == IF d < 0 THEN -1 ELSE 1
  IN  [num |-> (s * n) \div g, den |-> (s * d) \div g]

Num(n) == [num |-> n, den |-> 1]

IsNaN(x) == "nan" \in DOMAIN x

\* x - y, x * y, x / y on doubles; NaN is contagious.  Division is only
\* applied where the code has checked the divisor to be positive.
FSub(x, y) == IF IsNaN(x) \/ IsNaN(y) THEN NaN
              ELSE Frac(x.num * y.den - y.num * x.den, x.den * y.den)
FMul(x, y) == IF IsNaN(x) \/ IsNaN(y) THEN NaN
              ELSE Frac(x.num * y.num, x.den * y.den)
FDiv(x, y) == IF IsNaN(x) \/ IsNaN(y) THEN NaN
              ELSE Frac(x.num * y.den, x.den * y.num)
\* x > 0 (false for NaN)
FPositive(x) == ~IsNaN(x) /\ x.num > 0
\* JavaScript truthiness of a number: 0 and NaN are falsy
FTruthy(x) == ~IsNaN(x) /\ x.num # 0

----------------------------------------------------------------------------
(* JSON values, as response.json() yields them *)

Undefined == [type |-> "undefined"]
JNull     == [type |-> "null"]
JStr(s)   == [type |-> "string", str |-> s]
JNum(n)   == [type |-> "number", val |-> n]
JArr(es)  == [type |-> "array", elems |-> es]
\* an object is its set of <<key, value>> properties
JObj(ps)  == [type |-> "object", props |-> ps]

\* the numeric strings upstream sends in the model, and what parseFloat
\* makes of them; every other string parses to NaN
StrToFloat(s) ==
  CASE s = "0"      -> Num(0)
    [] s = "2"      -> Num(2)
    [] s = "-1"     -> Num(-1)
    [] s = "-5"     -> Num(-5)
    [] s = "100"    -> Num(100)
    [] s = "110"    -> Num(110)
    [] s = "2650"   -> Num(2650)
    [] s = "2700"   -> Num(2700)
    [] s = "97000"  -> Num(97000)
    [] s = "0.0001" -> Frac(1, 10000)
    [] OTHER        -> NaN

\* parseFloat(v): a number is converted to a string and back, a string is
\* parsed, undefined / null / an object give NaN
parseFloat(v) ==
  CASE v.type = "number" -> Num(v.val)
    [] v.type = "string" -> StrToFloat(v.str)
    [] OTHER             -> NaN

\* !v for the values a response body can be
Falsy(v) ==
  \/ v.type \in {"null", "undefined"}
  \/ v.type = "string" /\ v.str = ""
  \/ v.type = "number" /\ v.val = 0

\* v.key and v[i] throw a TypeError exactly when v is null or undefined
Throws(v) == v.type \in {"null", "undefined"}

\* v.key on a value that is not null or undefined
Prop(v, key) ==
  IF v.type = "object" /\ \E p \in v.props : p[1] = key
  THEN (CHOOSE p \in v.props : p[1] = key)[2]
  ELSE Undefined

\* v[i], i a 0-based index, on a value that is not null or undefined
Elem(v, i) ==
  IF v.type = "array" /\ i >= 0 /\ i < Len(v.elems) THEN v.elems[i + 1] ELSE Undefined

\* v.length: defined for arrays (strings do not occur as bodies here)
HasLength(v) == v.type = "array"
Length(v) == Len(v.elems)

----------------------------------------------------------------------------
(* Promise states *)

Pending      == [state |-> "pending"]
Rejected     == [state |-> "rejected"]
Fulfilled(v) == [state |-> "fulfilled", value |-> v]

\* a request whose safeFetch has not returned yet
NotSettled == [type |-> "notsettled"]

----------------------------------------------------------------------------
(* HTTP responses and safeFetch *)

NetworkError     == [net |-> "error"]
Http(status, b)  == [net |-> "ok", status |-> status, parses |-> TRUE, body |-> b]
\* a response whose body is not JSON: res.json() rejects
HttpNotJson(status) == [net |-> "ok", status |-> status, parses |-> FALSE, body |-> JNull]

\* res.ok
ResOk(r) == r.status >= 200 /\ r.status <= 299

\* safeFetch without `if (!res.ok) throw`: the body of an error status is
\* returned like any other
safeFetchIgnoresStatus(r) ==
  IF r.net = "error" THEN JNull
  ELSE IF ~r.parses THEN JNull
  ELSE r.body

\* safeFetch: the parsed body, or null after any failure
safeFetch(r) ==
  IF r.net = "error" THEN JNull
  ELSE IF ~ResOk(r) THEN JNull
  ELSE IF ~r.parses THEN JNull
  ELSE r.body

----------------------------------------------------------------------------
(* The requests of the fetch layer (the parts of the URL that vary) *)

TickerReq(symbol)  == [endpoint |-> "api/v3/ticker/24hr", symbol |-> symbol,
                       interval |-> "", limit |-> 0]
PremiumReq(symbol) == [endpoint |-> "fapi/v1/premiumIndex", symbol |-> symbol,
                       interval |-> "", limit |-> 0]
KlinesReq(symbol, interval, limit) ==
  [endpoint |-> "api/v3/klines", symbol |-> symbol, interval |-> interval, limit |-> limit]

----------------------------------------------------------------------------
(* fetchBTCPrice, fetchGoldPrice, fetchFundingRates *)

BtcFallback  == [price |-> Num(95000), changePercent |-> Num(0)]
GoldFallback == [price |-> Num(2650), changePercent |-> Num(0)]

\* the body of fetchBTCPrice after its safeFetch returned `data`
fetchBTCPrice(data) ==
  IF Falsy(data) THEN Fulfilled(BtcFallback)
  ELSE Fulfilled([price         |-> parseFloat(Prop(data, "lastPrice")),
                  changePercent |-> parseFloat(Prop(data, "priceChangePercent")),
                  change24h     |-> parseFloat(Prop(data, "priceChange"))])

fetchGoldPrice(data) ==
  IF Falsy(data) THEN Fulfilled(GoldFallback)
  ELSE Fulfilled([price         |-> parseFloat(Prop(data, "lastPrice")),
                  changePercent |-> parseFloat(Prop(data, "priceChangePercent"))])

FAdd(x, y) == IF IsNaN(x) \/ IsNaN(y) THEN NaN
              ELSE Frac(x.num * y.den + y.num * x.den, x.den * y.den)

\* the values Math.random() takes in the model, each a fraction in [0, 1)
RandomValues == {Frac(0, 1), Frac(1, 2)}

\* fetchFundingRates leaving out the Binance entry when its fetch failed
fetchFundingRatesSkipsFailed(binanceData, rnd) ==
  LET bybitRate == FAdd(Frac(1, 100), FMul(rnd, Frac(5, 1000)))
  IN  IF Falsy(binanceData)
      THEN Fulfilled(<< [exchange |-> "Bybit", rate |-> bybitRate] >>)
      ELSE Fulfilled(<<
             [exchange |-> "Binance",
              rate |-> parseFloat(Prop(binanceData, "lastFundingRate"))],
             [exchange |-> "Bybit", rate |-> bybitRate] >>)

\* fetchFundingRates after its safeFetch returned `binanceData`, with
\* `rnd` the value Math.random() returned
fetchFundingRates(binanceData, rnd) ==
  LET bybitRate == FAdd(Frac(1, 100), FMul(rnd, Frac(5, 1000)))
  IN  Fulfilled(<<
        [exchange |-> "Binance",
         rate |-> IF ~Falsy(binanceData)
                  THEN parseFloat(Prop(binanceData, "lastFundingRate"))
                  ELSE Frac(100, 10000)],
        [exchange |-> "Bybit", rate |-> bybitRate] >>)

----------------------------------------------------------------------------
(* fetchHighLow *)

definitions == <<
  [label |-> "1H",  interval |-> "1h", limit |-> 2],
  [label |-> "4H",  interval |-> "4h", limit |-> 2],
  [label |-> "24H", interval |-> "1d", limit |-> 1],
  [label |-> "7D",  interval |-> "1w", limit |-> 1] >>

Windows == DOMAIN definitions

\* the requests fetchHighLow(symbol) issues, one per definition, in order
HighLowReqs(symbol) ==
  [i \in Windows |-> KlinesReq(symbol, definitions[i].interval, definitions[i].limit)]

ZeroEntry(def) ==
  [timeframe |-> def.label, high |-> Num(0), low |-> Num(0), rangePercent |-> Num(0)]

\* the range guarded by low !== 0 instead of low > 0
RangePercentNonZeroGuard(high, low) ==
  IF ~IsNaN(low) /\ low.num # 0 THEN FMul(FDiv(FSub(high, low), low), Num(100))
  ELSE Num(0)

\* range = low > 0 ? ((high - low) / low) * 100 : 0
RangePercent(high, low) ==
  IF FPositive(low) THEN FMul(FDiv(FSub(high, low), low), Num(100)) ELSE Num(0)

\* the callback without the `data.length === 0` test: data[-1] is undefined
HighLowCallbackNoEmptyTest(def, data) ==
  IF Falsy(data)
  THEN Fulfilled(ZeroEntry(def))
  ELSE LET candle == IF HasLength(data) THEN Elem(data, Length(data) - 1) ELSE Undefined
       IN  IF Throws(candle) THEN Rejected
           ELSE LET high == parseFloat(Elem(candle, 2))
                    low  == parseFloat(Elem(candle, 3))
                IN  Fulfilled([timeframe |-> def.label, high |-> high, low |-> low,
                               rangePercent |-> RangePercent(high, low)])

\* the async callback of definitions.map after its safeFetch returned
\* `data`: the promise it returns
HighLowCallback(def, data) ==
  IF Falsy(data) \/ (HasLength(data) /\ Length(data) = 0)
  THEN Fulfilled(ZeroEntry(def))
  ELSE LET candle == IF HasLength(data) THEN Elem(data, Length(data) - 1) ELSE Undefined
       IN  IF Throws(candle) THEN Rejected
           ELSE LET high == parseFloat(Elem(candle, 2))
                    low  == parseFloat(Elem(candle, 3))
                IN  Fulfilled([timeframe |-> def.label, high |-> high, low |-> low,
                               rangePercent |-> RangePercent(high, low)])

\* Promise.all over a sequence of promises: rejected as soon as one is,
\* pending while one is, else fulfilled with the values in index order
PromiseAll(ps) ==
  IF \E i \in DOMAIN ps : ps[i] = Rejected THEN Rejected
  ELSE IF \E i \in DOMAIN ps : ps[i] = Pending THEN Pending
  ELSE Fulfilled([i \in DOMAIN ps |-> ps[i].value])

\* the promise of fetchHighLow given what safeFetch has returned so far
\* for each of its requests (NotSettled: not yet)
fetchHighLow(datas) ==
  PromiseAll([i \in Windows |->
                IF datas[i] = NotSettled THEN Pending
                ELSE HighLowCallback(definitions[i], datas[i])])

----------------------------------------------------------------------------
(* fetchChartData *)

\* enum TimeFrame
H1 == "1h"
H4 == "4h"
D1 == "24h"
D7 == "7d"
TimeFrames == {H1, H4, D1, D7}

\* the switch without its D7 case: 7d falls through to the default pair
ChartParamsWithoutD7(tf) ==
  CASE tf = H1 -> [interval |-> "1m",  limit |-> 60]
    [] tf = H4 -> [interval |-> "5m",  limit |-> 48]
    [] tf = D1 -> [interval |-> "15m", limit |-> 96]
    [] OTHER   -> [interval |-> "1h",  limit |-> 168]

\* the switch on timeFrame: the candle interval and the point count
ChartParams(tf) ==
  CASE tf = H1 -> [interval |-> "1m",  limit |-> 60]
    [] tf = H4 -> [interval |-> "5m",  limit |-> 48]
    [] tf = D1 -> [interval |-> "15m", limit |-> 96]
    [] tf = D7 -> [interval |-> "2h",  limit |-> 84]
    [] OTHER   -> [interval |-> "1h",  limit |-> 168]

\* the two requests of fetchChartData(tf): BTC first, gold second
ChartReqs(tf) ==
  << KlinesReq("BTCUSDT",  ChartParams(tf).interval, ChartParams(tf).limit),
     KlinesReq("PAXGUSDT", ChartParams(tf).interval, ChartParams(tf).limit) >>

\* two digits of a number below 100
TwoDigits(n) == IF n < 10 THEN "0" \o ToString(n) ELSE ToString(n)

\* the label of a point.  Timestamps are counted in minutes since the
\* epoch in the model; toLocaleTimeString keeps hour and minute,
\* toLocaleDateString (7d) keeps the day and the hour.
TimeLabel(tf, timestamp) ==
  IF timestamp.type # "number" THEN "Invalid Date"
  ELSE LET minute == timestamp.val % 60
           hour   == (timestamp.val \div 60) % 24
           day    == timestamp.val \div 1440
       IN  IF tf = D7 THEN "1/" \o ToString(day + 1) \o ", " \o TwoDigits(hour)
           ELSE TwoDigits(hour) \o ":" \o TwoDigits(minute)

\* goldMap.has(key) and goldMap.get(key) after goldKlines.forEach: a later
\* candle with the same k[0] overwrites an earlier one
GoldMapHas(goldKlines, key) ==
  \E i \in 1..Length(goldKlines) : Elem(goldKlines.elems[i], 0) = key

GoldMapGet(goldKlines, key) ==
  LET last == CHOOSE i \in 1..Length(goldKlines) :
                /\ Elem(goldKlines.elems[i], 0) = key
                /\ \A j \in (i + 1)..Length(goldKlines) : Elem(goldKlines.elems[j], 0) # key
  IN  parseFloat(Elem(goldKlines.elems[last], 4))

\* the default applied with ?? instead of ||: only a missing entry falls back
XauCloseNullish(goldKlines, timestamp) ==
  IF GoldMapHas(goldKlines, timestamp)
  THEN GoldMapGet(goldKlines, timestamp)
  ELSE Num(2650)

\* const xauClose = goldMap.get(timestamp) || 2650
XauClose(goldKlines, timestamp) ==
  IF GoldMapHas(goldKlines, timestamp) /\ FTruthy(GoldMapGet(goldKlines, timestamp))
  THEN GoldMapGet(goldKlines, timestamp)
  ELSE Num(2650)

\* one element of btcKlines.map
ChartPoint(tf, goldKlines, k) ==
  [time      |-> TimeLabel(tf, Elem(k, 0)),
   timestamp |-> Elem(k, 0),
   btc       |-> parseFloat(Elem(k, 4)),
   xau       |-> XauClose(goldKlines, Elem(k, 0))]

\* the body of fetchChartData(tf) after both safeFetch calls returned.
\* forEach / map are not functions of a non-array, and k[0] throws on a
\* null element.
fetchChartData(tf, btcKlines, goldKlines) ==
  IF Falsy(btcKlines) \/ Falsy(goldKlines) THEN Fulfilled(<< >>)
  ELSE IF goldKlines.type # "array" THEN Rejected
  ELSE IF \E i \in 1..Length(goldKlines) : Throws(goldKlines.elems[i]) THEN Rejected
  ELSE IF btcKlines.type # "array" THEN Rejected
  ELSE IF \E i \in 1..Length(btcKlines) : Throws(btcKlines.elems[i]) THEN Rejected
  ELSE Fulfilled([i \in 1..Length(btcKlines) |->
                    ChartPoint(tf, goldKlines, btcKlines.elems[i])])

----------------------------------------------------------------------------
(* What upstream may answer: the inputs of FetchSpec *)

\* a candle [openTime, open, high, low, close] as the klines endpoint sends it
Candle(ts, open, high, low, close) ==
  JArr(<< JNum(ts), JStr(open), JStr(high), JStr(low), JStr(close) >>)

ErrorBody == JObj({ <<"msg", JStr("error")>> })

\* the request ends in a network error or a non-2xx status
FailedResponses == { NetworkError, Http(404, ErrorBody), Http(500, ErrorBody) }

Ticker(lastPrice, pct, change) ==
  JObj({ <<"lastPrice", JStr(lastPrice)>>, <<"priceChangePercent", JStr(pct)>>,
         <<"priceChange", JStr(change)>> })

TickerResponses ==
  FailedResponses \cup
  { HttpNotJson(200), Http(200, JNull), Http(200, JObj({})),
    Http(200, Ticker("97000", "2", "100")), Http(200, Ticker("2700", "-1", "-5")),
    Http(200, Ticker("n/a", "2", "100")) }

PremiumResponses ==
  FailedResponses \cup
  { HttpNotJson(200), Http(200, JObj({})),
    Http(200, JObj({ <<"lastFundingRate", JStr("0.0001")>> })),
    Http(200, JObj({ <<"lastFundingRate", JStr("")>> })) }

\* the (high, low) strings of the candles fetchHighLow reads
HighLowPairs ==
  { <<"110", "100">>, <<"100", "100">>, <<"110", "0">>, <<"110", "-5">>,
    <<"110", "n/a">>, <<"n/a", "100">> }

HighLowResponses ==
  { NetworkError, Http(500, ErrorBody), Http(200, JArr(<< >>)), Http(200, ErrorBody),
    Http(200, JArr(<< JNull >>)),
    Http(200, JArr(<< Candle(1, "100", "97000", "2", "100"),
                      Candle(2, "100", "110", "100", "100") >>)) } \cup
  { Http(200, JArr(<< Candle(1, "100", p[1], p[2], "100") >>)) : p \in HighLowPairs }

\* the open times a chart series may hold, in minutes
ChartTimes == 1..(MaxCandles + 1)

\* the series of at most MaxCandles candles with ascending open times and
\* closes among `closes`
SeriesOf(closes) ==
  LET cs == { Candle(t, "0", "0", "0", c) : t \in ChartTimes, c \in closes }
  IN  { s \in UNION { [1..n -> cs] : n \in 0..MaxCandles } :
          \A i \in 1..(Len(s) - 1) : s[i].elems[1].val < s[i + 1].elems[1].val }

MalformedKlines ==
  { HttpNotJson(200), Http(200, ErrorBody), Http(200, JArr(<< JNull >>)) }

BtcChartResponses ==
  FailedResponses \cup MalformedKlines \cup
  { Http(200, JArr(s)) : s \in SeriesOf({"97000", "n/a"}) }

GoldChartResponses ==
  FailedResponses \cup MalformedKlines \cup
  { Http(200, JArr(s)) : s \in SeriesOf({"2650", "2700", "0", "n/a"}) }

\* the responses FetchSpec draws for request i of accessor fn
ResponsesFor(fn, i) ==
  CASE fn = "btc"     -> TickerResponses
    [] fn = "gold"    -> TickerResponses
    [] fn = "funding" -> PremiumResponses
    [] fn = "highlow" -> HighLowResponses
    [] fn = "chart"   -> IF i = 1 THEN BtcChartResponses ELSE GoldChartResponses

----------------------------------------------------------------------------
(* FetchSpec: one accessor invocation at a time *)

NoArg == [symbol |-> "", timeFrame |-> "", random |-> Frac(0, 1)]

\* what safeFetch returned for request i of the running accessor
Data(resp, i) == IF resp[i] = NotSettled THEN NotSettled ELSE safeFetch(resp[i])

\* the promise the running accessor has returned, given the responses so far
AccessorPromise(fn, arg, resp) ==
  CASE fn = "btc" ->
         IF resp[1] = NotSettled THEN Pending ELSE fetchBTCPrice(Data(resp, 1))
    [] fn = "gold" ->
         IF resp[1] = NotSettled THEN Pending ELSE fetchGoldPrice(Data(resp, 1))
    [] fn = "funding" ->
         IF resp[1] = NotSettled THEN Pending
         ELSE fetchFundingRates(Data(resp, 1), arg.random)
    [] fn = "highlow" ->
         fetchHighLow([i \in Windows |-> Data(resp, i)])
    [] fn = "chart" ->
         IF resp[1] = NotSettled \/ resp[2] = NotSettled THEN Pending
         ELSE fetchChartData(arg.timeFrame, Data(resp, 1), Data(resp, 2))

\* an accessor may be called once the previous call has returned
CanCall == fxFn = "idle" \/ fxRet # Pending

Call(fn, arg, reqs) ==
  /\ CanCall
  /\ fxFn' = fn
  /\ fxArg' = arg
  /\ fxReqs' = reqs
  /\ fxResp' = [i \in DOMAIN reqs |-> NotSettled]
  /\ fxRet' = Pending
  /\ UNCHANGED <<appVars, panelVars>>

CallBTCPrice == Call("btc", NoArg, << TickerReq("BTCUSDT") >>)

CallGoldPrice == Call("gold", NoArg, << TickerReq("PAXGUSDT") >>)

CallFundingRates ==
  \E rnd \in RandomValues :
    Call("funding", [NoArg EXCEPT !.random = rnd], << PremiumReq("BTCUSDT") >>)

CallHighLow ==
  \E symbol \in {"BTCUSDT", "PAXGUSDT"} :
    Call("highlow", [NoArg EXCEPT !.symbol = symbol], HighLowReqs(symbol))

CallChartData ==
  \E tf \in TimeFrames :
    Call("chart", [NoArg EXCEPT !.timeFrame = tf], ChartReqs(tf))

\* one pending request of the running accessor gets its response; the
\* accessor's continuation runs with it
RequestSettles ==
  /\ fxFn # "idle"
  /\ \E i \in DOMAIN fxResp :
       /\ fxResp[i] = NotSettled
       /\ \E r \in ResponsesFor(fxFn, i) :
            /\ fxResp' = [fxResp EXCEPT ![i] = r]
            /\ fxRet' = AccessorPromise(fxFn, fxArg, fxResp')
  /\ UNCHANGED <<fxFn, fxArg, fxReqs>>
  /\ UNCHANGED <<appVars, panelVars>>

FetchInit ==
  /\ fxFn = "idle"
  /\ fxArg = NoArg
  /\ fxReqs = << >>
  /\ fxResp = << >>
  /\ fxRet = Pending

----------------------------------------------------------------------------
(* The upstream feeds of Spec: what every request of one cycle is answered *)

\* live: every endpoint answers with market data; down: every request
\* fails; malformed: every request gets a 2xx whose JSON is an error object
Feeds == {"live", "down", "malformed"}

\* what Math.random() returns under each feed
FeedRandom(feed) == IF feed = "live" THEN Frac(1, 2) ELSE Frac(0, 1)

\* the length of a candle interval in minutes
IntervalMinutes(interval) ==
  CASE interval = "1m"  -> 1
    [] interval = "5m"  -> 5
    [] interval = "15m" -> 15
    [] interval = "1h"  -> 60
    [] interval = "2h"  -> 120
    [] interval = "4h"  -> 240
    [] interval = "1d"  -> 1440
    [] interval = "1w"  -> 10080

Min(a, b) == IF a < b THEN a ELSE b

\* the candles the live feed serves for a klines request: consecutive
\* candles of the requested interval, at most `limit` of them
LiveCandles(req) ==
  [i \in 1..Min(req.limit, MaxCandles) |->
     IF req.symbol = "BTCUSDT"
     THEN Candle(i * IntervalMinutes(req.interval), "100", "110", "100", "97000")
     ELSE Candle(i * IntervalMinutes(req.interval), "2650", "2700", "2650", "2700")]

Upstream(feed, req) ==
  CASE feed = "down" -> NetworkError
    [] feed = "malformed" -> Http(200, ErrorBody)
    [] feed = "live" ->
         CASE req.endpoint = "api/v3/ticker/24hr" ->
                IF req.symbol = "BTCUSDT" THEN Http(200, Ticker("97000", "2", "100"))
                ELSE Http(200, Ticker("2700", "-1", "-5"))
           [] req.endpoint = "fapi/v1/premiumIndex" ->
                Http(200, JObj({ <<"lastFundingRate", JStr("0.0001")>> }))
           [] req.endpoint = "api/v3/klines" ->
                Http(200, JArr(LiveCandles(req)))

----------------------------------------------------------------------------
(* Spec: the App component *)

\* the six calls of loadAllData's Promise.all, in array order
AccessorSeq == << "btc", "gold", "funding", "hlBtc", "hlGold", "chart" >>
Accessors == { AccessorSeq[i] : i \in DOMAIN AccessorSeq }

\* the time frames the user selects in the model
TimeFrameChoices == {H1, D7}

\* the promise accessor a settles to when called with time frame tf
\* against feed
AccessorResult(a, tf, feed) ==
  CASE a = "btc" ->
         fetchBTCPrice(safeFetch(Upstream(feed, TickerReq("BTCUSDT"))))
    [] a = "gold" ->
         fetchGoldPrice(safeFetch(Upstream(feed, TickerReq("PAXGUSDT"))))
    [] a = "funding" ->
         fetchFundingRates(safeFetch(Upstream(feed, PremiumReq("BTCUSDT"))),
                           FeedRandom(feed))
    [] a = "hlBtc" ->
         fetchHighLow([i \in Windows |->
                         safeFetch(Upstream(feed, HighLowReqs("BTCUSDT")[i]))])
    [] a = "hlGold" ->
         fetchHighLow([i \in Windows |->
                         safeFetch(Upstream(feed, HighLowReqs("PAXGUSDT")[i]))])
    [] a = "chart" ->
         fetchChartData(tf, safeFetch(Upstream(feed, ChartReqs(tf)[1])),
                            safeFetch(Upstream(feed, ChartReqs(tf)[2])))

\* a function compared with itself, so that it is evaluated once, as a table
Tabulated(f) == IF f = f THEN f ELSE f

\* the six calls raced instead of awaited together: loadAllData runs on
\* with the results as soon as the first call has settled
AwaitFirst(settled, tf, feed) ==
  IF settled = {} THEN Pending
  ELSE PromiseAll([i \in DOMAIN AccessorSeq |-> AccessorResult(AccessorSeq[i], tf, feed)])

\* await Promise.all([...]) of a cycle with time frame tf whose requests
\* are answered by feed: the six promises as they stand when the
\* accessors in `settled` have settled
AwaitAll(settled, tf, feed) ==
  PromiseAll([i \in DOMAIN AccessorSeq |->
                IF AccessorSeq[i] \in settled THEN AccessorResult(AccessorSeq[i], tf, feed)
                ELSE Pending])

\* AwaitAll, tabulated
PromiseTable ==
  Tabulated([tf \in TimeFrameChoices |-> [feed \in Feeds |->
               [settled \in SUBSET Accessors |-> AwaitAll(settled, tf, feed)]]])

CyclePromise(c, feed) == PromiseTable[c.tf][feed][c.settled]

\* new Date().toLocaleTimeString() for a clock reading in minutes
LocaleTimeString(t) ==
  TwoDigits((t \div 60) % 24) \o ":" \o TwoDigits(t % 60) \o ":00"

Times == 1..NumTimes

RemoveAt(seq, k) == [i \in 1..(Len(seq) - 1) |-> IF i < k THEN seq[i] ELSE seq[i + 1]]

\* loadAllData up to its await: setLoading(true) and the six calls, with
\* the timeFrame the closure captured
StartCycle(tf) ==
  /\ Len(cycles) < MaxInFlight
  /\ cycles' = Append(cycles, [tf |-> tf, settled |-> {}])
  /\ loading' = TRUE

\* clearInterval(interval): the timer the running effect created
ClearInterval(ts) == SubSeq(ts, 1, Len(ts) - 1)

\* useEffect(() => {...}, [loadAllData]) on the first commit
Mount ==
  /\ mounted = "no"
  /\ mounted' = "yes"
  /\ StartCycle(timeFrame)
  /\ timers' = Append(timers, timeFrame)
  /\ UNCHANGED <<btcData, goldData, chartData, fundingData, highLowBtc, highLowGold,
                 timeFrame, chartMode, lastUpdated>>
  /\ UNCHANGED <<fetchVars, panelVars>>

\* the setInterval callback, every 30000 ms
TimerTick ==
  /\ \E i \in DOMAIN timers : StartCycle(timers[i])
  /\ UNCHANGED <<btcData, goldData, chartData, fundingData, highLowBtc, highLowGold,
                 timeFrame, chartMode, lastUpdated, mounted, timers>>
  /\ UNCHANGED <<fetchVars, panelVars>>

\* the refresh button: onClick={loadAllData}
ManualRefresh ==
  /\ mounted = "yes"
  /\ StartCycle(timeFrame)
  /\ UNCHANGED <<btcData, goldData, chartData, fundingData, highLowBtc, highLowGold,
                 timeFrame, chartMode, lastUpdated, mounted, timers>>
  /\ UNCHANGED <<fetchVars, panelVars>>

\* the effect with an empty dependency list: a change of timeFrame neither
\* re-runs it nor replaces the timer, whose callback keeps the first closure
ChangeTimeFrameKeepsEffect ==
  /\ mounted = "yes"
  /\ \E newTf \in TimeFrameChoices :
       IF newTf # timeFrame
       THEN timeFrame' = newTf
       ELSE UNCHANGED timeFrame
  /\ UNCHANGED <<btcData, goldData, chartData, fundingData, highLowBtc, highLowGold,
                 chartMode, lastUpdated, mounted, cycles, loading, timers>>
  /\ UNCHANGED <<fetchVars, panelVars>>

\* the effect re-run without the cleanup of the previous run
ChangeTimeFrameLeaksTimer ==
  /\ mounted = "yes"
  /\ \E newTf \in TimeFrameChoices :
       IF newTf # timeFrame
       THEN /\ timeFrame' = newTf
            /\ StartCycle(newTf)
            /\ timers' = Append(timers, newTf)
       ELSE UNCHANGED <<timeFrame, cycles, loading, timers>>
  /\ UNCHANGED <<btcData, goldData, chartData, fundingData, highLowBtc, highLowGold,
                 chartMode, lastUpdated, mounted>>
  /\ UNCHANGED <<fetchVars, panelVars>>

\* handleTimeFrameChange without its test newTf !== timeFrame, with an
\* effect that runs again on every selection
ChangeTimeFrameAlwaysRestarts ==
  /\ mounted = "yes"
  /\ \E newTf \in TimeFrameChoices :
       /\ timeFrame' = newTf
       /\ StartCycle(newTf)
       /\ timers' = Append(ClearInterval(timers), newTf)
  /\ UNCHANGED <<btcData, goldData, chartData, fundingData, highLowBtc, highLowGold,
                 chartMode, lastUpdated, mounted>>
  /\ UNCHANGED <<fetchVars, panelVars>>

\* handleTimeFrameChange(newTf); a change of timeFrame re-creates
\* loadAllData, so the effect is cleaned up and run again
ChangeTimeFrame ==
  /\ mounted = "yes"
  /\ \E newTf \in TimeFrameChoices :
       IF newTf # timeFrame
       THEN /\ timeFrame' = newTf
            /\ StartCycle(newTf)
            /\ timers' = Append(ClearInterval(timers), newTf)
       ELSE UNCHANGED <<timeFrame, cycles, loading, timers>>
  /\ UNCHANGED <<btcData, goldData, chartData, fundingData, highLowBtc, highLowGold,
                 chartMode, lastUpdated, mounted>>
  /\ UNCHANGED <<fetchVars, panelVars>>

\* the effect without its cleanup function: the timer outlives the component
UnmountKeepsTimer ==
  /\ mounted = "yes"
  /\ mounted' = "gone"
  /\ UNCHANGED <<btcData, goldData, chartData, fundingData, highLowBtc, highLowGold,
                 timeFrame, chartMode, loading, lastUpdated, cycles, timers>>
  /\ UNCHANGED <<fetchVars, panelVars>>

\* the component is unmounted: the effect's cleanup runs
Unmount ==
  /\ mounted = "yes"
  /\ mounted' = "gone"
  /\ timers' = ClearInterval(timers)
  /\ UNCHANGED <<btcData, goldData, chartData, fundingData, highLowBtc, highLowGold,
                 timeFrame, chartMode, loading, lastUpdated, cycles>>
  /\ UNCHANGED <<fetchVars, panelVars>>

\* type ChartMode
ChartModes == {"combined", "btc", "gold"}

\* a mode button that also reloads, as the time frame buttons do
SetChartModeReloads ==
  /\ mounted = "yes"
  /\ \E mode \in ChartModes :
       /\ chartMode' = mode
       /\ IF mode # chartMode
          THEN StartCycle(timeFrame)
          ELSE UNCHANGED <<cycles, loading>>
  /\ UNCHANGED <<btcData, goldData, chartData, fundingData, highLowBtc, highLowGold,
                 timeFrame, lastUpdated, mounted, timers>>
  /\ UNCHANGED <<fetchVars, panelVars>>

\* a mode button of MarketChart: onChartModeChange(mode), which is
\* setChartMode
SetChartMode ==
  /\ mounted = "yes"
  /\ \E mode \in ChartModes : chartMode' = mode
  /\ UNCHANGED <<btcData, goldData, chartData, fundingData, highLowBtc, highLowGold,
                 timeFrame, loading, lastUpdated, mounted, timers, cycles>>
  /\ UNCHANGED <<fetchVars, panelVars>>

\* cycle k with accessor a settled as well
Settle(k, a) == [cycles[k] EXCEPT !.settled = @ \cup {a}]

\* The responses of upstream are inputs, and nothing reads a result of a
\* cycle before its Promise.all settles: the feed that answered a cycle is
\* drawn in the step that settles one of its promises, among the feeds
\* under which the cycle was still pending.

\* the feeds under which cycle k is pending
PendingUnder(k) == { feed \in Feeds : CyclePromise(cycles[k], feed) = Pending }

\* the feeds under which cycle k is pending and the settling of its
\* accessor a makes Promise.all have the state of st
SettlesTo(feeds, k, a, st) ==
  { feed \in feeds : CyclePromise(Settle(k, a), feed).state = st.state }

\* an accessor promise of a cycle settles and Promise.all stays pending
AccessorSettles ==
  /\ \E k \in DOMAIN cycles : \E feeds \in {PendingUnder(k)} :
     \E a \in Accessors \ cycles[k].settled :
       /\ SettlesTo(feeds, k, a, Pending) # {}
       /\ cycles' = [cycles EXCEPT ![k] = Settle(k, a)]
  /\ UNCHANGED <<btcData, goldData, chartData, fundingData, highLowBtc, highLowGold,
                 timeFrame, chartMode, loading, lastUpdated, mounted, timers>>
  /\ UNCHANGED <<fetchVars, panelVars>>

\* The root that renders App is not among the sources.  As the
\* specification has it, the state updates one continuation of loadAllData
\* queues are committed together, so the view renders none of the states
\* between two setters.
AutomaticBatching == TRUE

\* loadAllData without its setGoldData call
CycleFulfilsSkipsGold ==
  /\ \E k \in DOMAIN cycles : \E feeds \in {PendingUnder(k)} :
     \E a \in Accessors \ cycles[k].settled :
     \E feed \in SettlesTo(feeds, k, a, Fulfilled(<< >>)) :
       LET p == CyclePromise(Settle(k, a), feed) IN
       /\ cycles' = RemoveAt(cycles, k)
       /\ IF mounted = "yes"
          THEN /\ btcData' = p.value[1]
               /\ goldData' = goldData
               /\ fundingData' = p.value[3]
               /\ highLowBtc' = p.value[4]
               /\ highLowGold' = p.value[5]
               /\ chartData' = p.value[6]
               /\ \E t \in Times : lastUpdated' = LocaleTimeString(t)
               /\ loading' = FALSE
          ELSE UNCHANGED <<btcData, goldData, chartData, fundingData, highLowBtc,
                           highLowGold, lastUpdated, loading>>
  /\ UNCHANGED <<timeFrame, chartMode, mounted, timers>>
  /\ UNCHANGED <<fetchVars, panelVars>>

\* the last accessor promise of a cycle settles, Promise.all fulfils and
\* loadAllData runs on: the seven setters, then setLoading(false) in the
\* finally block.  The setters of an unmounted component do nothing.
CycleFulfils ==
  /\ \E k \in DOMAIN cycles : \E feeds \in {PendingUnder(k)} :
     \E a \in Accessors \ cycles[k].settled :
     \E feed \in SettlesTo(feeds, k, a, Fulfilled(<< >>)) :
       LET p == CyclePromise(Settle(k, a), feed) IN
       /\ AutomaticBatching
       /\ cycles' = RemoveAt(cycles, k)
       /\ IF mounted = "yes"
          THEN /\ btcData' = p.value[1]
               /\ goldData' = p.value[2]
               /\ fundingData' = p.value[3]
               /\ highLowBtc' = p.value[4]
               /\ highLowGold' = p.value[5]
               /\ chartData' = p.value[6]
               /\ \E t \in Times : lastUpdated' = LocaleTimeString(t)
               /\ loading' = FALSE
          ELSE UNCHANGED <<btcData, goldData, chartData, fundingData, highLowBtc,
                           highLowGold, lastUpdated, loading>>
  /\ UNCHANGED <<timeFrame, chartMode, mounted, timers>>
  /\ UNCHANGED <<fetchVars, panelVars>>

\* loadAllData without its finally block
CycleRejectsWithoutFinally ==
  /\ \E k \in DOMAIN cycles : \E feeds \in {PendingUnder(k)} :
     \E a \in Accessors \ cycles[k].settled :
       /\ SettlesTo(feeds, k, a, Rejected) # {}
       /\ cycles' = RemoveAt(cycles, k)
  /\ UNCHANGED <<btcData, goldData, chartData, fundingData, highLowBtc, highLowGold,
                 timeFrame, chartMode, loading, lastUpdated, mounted, timers>>
  /\ UNCHANGED <<fetchVars, panelVars>>

\* a catch block that also clears the interval
CycleRejectsStopsTimer ==
  /\ \E k \in DOMAIN cycles : \E feeds \in {PendingUnder(k)} :
     \E a \in Accessors \ cycles[k].settled :
       /\ SettlesTo(feeds, k, a, Rejected) # {}
       /\ cycles' = RemoveAt(cycles, k)
  /\ loading' = IF mounted = "yes" THEN FALSE ELSE loading
  /\ timers' = << >>
  /\ UNCHANGED <<btcData, goldData, chartData, fundingData, highLowBtc, highLowGold,
                 timeFrame, chartMode, lastUpdated, mounted>>
  /\ UNCHANGED <<fetchVars, panelVars>>

\* setLastUpdated moved to the finally block
CycleRejectsStampsTime ==
  /\ \E k \in DOMAIN cycles : \E feeds \in {PendingUnder(k)} :
     \E a \in Accessors \ cycles[k].settled :
       /\ SettlesTo(feeds, k, a, Rejected) # {}
       /\ cycles' = RemoveAt(cycles, k)
  /\ loading' = IF mounted = "yes" THEN FALSE ELSE loading
  /\ IF mounted = "yes"
     THEN \E t \in Times : lastUpdated' = LocaleTimeString(t)
     ELSE UNCHANGED lastUpdated
  /\ UNCHANGED <<btcData, goldData, chartData, fundingData, highLowBtc, highLowGold,
                 timeFrame, chartMode, mounted, timers>>
  /\ UNCHANGED <<fetchVars, panelVars>>

\* an accessor promise of a cycle rejects, so Promise.all rejects: the
\* catch block logs and the finally block runs setLoading(false)
CycleRejects ==
  /\ \E k \in DOMAIN cycles : \E feeds \in {PendingUnder(k)} :
     \E a \in Accessors \ cycles[k].settled :
       /\ SettlesTo(feeds, k, a, Rejected) # {}
       /\ cycles' = RemoveAt(cycles, k)
  /\ loading' = IF mounted = "yes" THEN FALSE ELSE loading
  /\ UNCHANGED <<btcData, goldData, chartData, fundingData, highLowBtc, highLowGold,
                 timeFrame, chartMode, lastUpdated, mounted, timers>>
  /\ UNCHANGED <<fetchVars, panelVars>>

AppInit ==
  /\ btcData = [price |-> Num(0), changePercent |-> Num(0)]
  /\ goldData = [price |-> Num(0), changePercent |-> Num(0)]
  /\ chartData = << >>
  /\ fundingData = << >>
  /\ highLowBtc = << >>
  /\ highLowGold = << >>
  /\ timeFrame = H1
  /\ chartMode = "combined"
  /\ loading = TRUE
  /\ lastUpdated = ""
  /\ mounted = "no"
  /\ timers = << >>
  /\ cycles = << >>

----------------------------------------------------------------------------
(* What the components render from the state of App *)

\* MarketChart returns the loading placeholder instead of the chart
RendersPlaceholder(isLoading, data) == isLoading /\ Len(data) = 0

\* the right Y axis is rendered
showRightAxis(mode) == mode = "combined"

\* the Y axes MarketChart renders
AxesShown(mode) == {"left"} \cup (IF showRightAxis(mode) THEN {"right"} ELSE {})

\* the gold Area always on the right axis, also when it is the only series
GoldAreaKeepsRightAxis(mode) ==
  IF mode = "combined" \/ mode = "gold"
  THEN { [dataKey |-> "xau", yAxisId |-> "right"] }
  ELSE {}

\* the BTC Area, rendered in the modes combined and btc
BtcArea(mode) ==
  IF mode = "combined" \/ mode = "btc"
  THEN { [dataKey |-> "btc", yAxisId |-> "left"] }
  ELSE {}

\* the gold Area, rendered in the modes combined and gold
GoldArea(mode) ==
  IF mode = "combined" \/ mode = "gold"
  THEN { [dataKey |-> "xau", yAxisId |-> IF mode = "combined" THEN "right" ELSE "left"] }
  ELSE {}

\* the series MarketChart renders, each with the axis it is bound to
SeriesShown(mode) == BtcArea(mode) \cup GoldArea(mode)

\* InfoPanel as it was before it got the gold list: the BTC list always
displayHighLowBtcOnly(mode, hlBtc, hlGold) == hlBtc

\* InfoPanel: displayHighLow
displayHighLow(mode, hlBtc, hlGold) == IF mode = "gold" THEN hlGold ELSE hlBtc

\* the volatility prop App passes to AIAnalysisPanel
volatility(mode, hlBtc, hlGold) == IF mode = "gold" THEN hlGold ELSE hlBtc

----------------------------------------------------------------------------
(* The AIAnalysisPanel component and runDeepLearningAnalysis *)

\* the values process.env.API_KEY may have in a build
ApiKeys == { Undefined, JStr(""), JStr("key") }

\* the texts handleAnalyze and runDeepLearningAnalysis produce; the warning
\* sign the first two begin with is written (!)
KeyMissingMessage ==
  "(!) API KEY MISSING.\nPlease configure process.env.API_KEY in your environment."
CallFailedMessage == "(!) Neural Network Connection Failed."
NoSignalMessage == "AI Model returned no signal."
HandlerFailedMessage == "Connection to Deep Learning Engine failed."

\* what generateContent may do: fulfil with a response whose text is a
\* string or undefined, or reject
Responded(text) == [ok |-> TRUE, text |-> text]
CallRejected(why) == [ok |-> FALSE, why |-> why]
Outcomes ==
  { Responded(JStr("## LONG")), Responded(JStr("## SHORT")), Responded(JStr("")),
    Responded(Undefined), CallRejected("quota"), CallRejected("network") }

\* the fundingRate prop: fundingData[0]?.rate * 100 || 0
FundingRateProp ==
  IF fundingData = << >>
  THEN Num(0)
  ELSE LET percent == FMul(fundingData[1].rate, Num(100))
       IN  IF FTruthy(percent) THEN percent ELSE Num(0)

\* the props of AIAnalysisPanel, which handleAnalyze passes on as marketData
MarketData ==
  [btcPrice |-> btcData.price, btcChange |-> btcData.changePercent,
   goldPrice |-> goldData.price, goldChange |-> goldData.changePercent,
   fundingRate |-> FundingRateProp,
   volatility |-> volatility(chartMode, highLowBtc, highLowGold)]

\* the button disabled for want of a key only
TriggerDisabledIgnoresAnalyzing == Falsy(apiKey)

\* the button: disabled={isAnalyzing || !process.env.API_KEY}
TriggerDisabled == isAnalyzing \/ Falsy(apiKey)

\* a run whose promise has settled resumes in a microtask, before the next
\* event is handled
NoMicrotask == \A k \in DOMAIN runs : runs[k].promise = Pending

\* runDeepLearningAnalysis without its test of the key
CallsWithoutKeyTest(key) == Pending

\* runDeepLearningAnalysis up to its first await: the promise it returns is
\* fulfilled with null when there is no key, pending on generateContent
\* otherwise
runDeepLearningAnalysis(key) == IF Falsy(key) THEN Fulfilled(JNull) ELSE Pending

\* runDeepLearningAnalysis after generateContent: response.text, or the
\* text of its catch block
AnalysisResult(outcome) ==
  IF outcome.ok THEN outcome.text ELSE JStr(CallFailedMessage)

\* the text handleAnalyze sets for the settled promise of
\* runDeepLearningAnalysis
AnalysisText(promise) ==
  IF promise = Rejected THEN HandlerFailedMessage
  ELSE IF promise.value = JNull THEN KeyMissingMessage
  ELSE IF Falsy(promise.value) THEN NoSignalMessage
  ELSE promise.value.str

\* handleAnalyze without its setAnalysis("")
handleAnalyzeKeepsText ==
  LET promise == runDeepLearningAnalysis(apiKey) IN
  /\ isAnalyzing' = TRUE
  /\ analysis' = analysis
  /\ runs' = Append(runs, [promise |-> promise, marketData |-> MarketData])
  /\ requests' = IF promise = Pending THEN requests + 1 ELSE requests
  /\ UNCHANGED <<apiKey, appVars, fetchVars>>

\* handleAnalyze up to its await
handleAnalyze ==
  LET promise == runDeepLearningAnalysis(apiKey) IN
  /\ isAnalyzing' = TRUE
  /\ analysis' = ""
  /\ runs' = Append(runs, [promise |-> promise, marketData |-> MarketData])
  /\ requests' = IF promise = Pending THEN requests + 1 ELSE requests
  /\ UNCHANGED <<apiKey, appVars, fetchVars>>

\* a click on the enabled button
ClickScan ==
  /\ mounted = "yes"
  /\ NoMicrotask
  /\ ~TriggerDisabled
  /\ requests < MaxRequests
  /\ handleAnalyze

\* handleAnalyze invoked although the button is disabled for want of a key
AnalyzeWithoutKey ==
  /\ mounted = "yes"
  /\ NoMicrotask
  /\ Falsy(apiKey)
  /\ handleAnalyze

\* generateContent settles and runDeepLearningAnalysis returns
GenerateContentSettles ==
  /\ NoMicrotask
  /\ \E k \in DOMAIN runs : \E outcome \in Outcomes :
       /\ runs[k].promise = Pending
       /\ runs' = [runs EXCEPT ![k].promise = Fulfilled(AnalysisResult(outcome))]
  /\ UNCHANGED <<apiKey, analysis, isAnalyzing, requests, appVars, fetchVars>>

\* handleAnalyze without its finally block
AnalysisResumesWithoutFinally ==
  /\ \E k \in DOMAIN runs :
       /\ runs[k].promise # Pending
       /\ runs' = RemoveAt(runs, k)
       /\ analysis' = IF mounted = "yes" THEN AnalysisText(runs[k].promise) ELSE analysis
  /\ UNCHANGED <<apiKey, isAnalyzing, requests, appVars, fetchVars>>

\* handleAnalyze after its await: setAnalysis, then setIsAnalyzing(false) in
\* the finally block.  The setters of an unmounted component do nothing.
AnalysisResumes ==
  /\ AutomaticBatching
  /\ \E k \in DOMAIN runs :
       /\ runs[k].promise # Pending
       /\ runs' = RemoveAt(runs, k)
       /\ IF mounted = "yes"
          THEN /\ analysis' = AnalysisText(runs[k].promise)
               /\ isAnalyzing' = FALSE
          ELSE UNCHANGED <<analysis, isAnalyzing>>
  /\ UNCHANGED <<apiKey, requests, appVars, fetchVars>>

\* useState initial values of AIAnalysisPanel
PanelInit ==
  /\ analysis = ""
  /\ isAnalyzing = FALSE
  /\ runs = << >>
  /\ requests = 0

----------------------------------------------------------------------------
(* The specifications *)

\* the dashboard built without a credential
Init == FetchInit /\ AppInit /\ PanelInit /\ apiKey = Undefined

Next ==
  \/ Mount
  \/ TimerTick
  \/ ManualRefresh
  \/ ChangeTimeFrame
  \/ SetChartMode
  \/ Unmount
  \/ AccessorSettles
  \/ CycleFulfils
  \/ CycleRejects

Spec == Init /\ [][Next]_vars

FetchNext ==
  \/ CallBTCPrice
  \/ CallGoldPrice
  \/ CallFundingRates
  \/ CallHighLow
  \/ CallChartData
  \/ RequestSettles

FetchSpec == Init /\ [][FetchNext]_vars

\* the dashboard built with any of the credentials
PanelStart == FetchInit /\ AppInit /\ PanelInit /\ apiKey \in ApiKeys

\* the analysis panel in a dashboard that loads its data once
PanelNext ==
  \/ NoMicrotask /\ Mount
  \/ NoMicrotask /\ SetChartMode
  \/ NoMicrotask /\ Unmount
  \/ NoMicrotask /\ AccessorSettles
  \/ NoMicrotask /\ CycleFulfils
  \/ NoMicrotask /\ CycleRejects
  \/ ClickScan
  \/ AnalyzeWithoutKey
  \/ GenerateContentSettles
  \/ AnalysisResumes

PanelSpec == PanelStart /\ [][PanelNext]_vars

\* a request of cycle k settles: one of its accessor promises settles, and
\* the cycle runs on if that settles its Promise.all
CycleStep(k) ==
  /\ k \in DOMAIN cycles
  /\ AccessorSettles \/ CycleFulfils \/ CycleRejects
  /\ \/ cycles' = RemoveAt(cycles, k)
     \/ Len(cycles') = Len(cycles) /\ cycles'[k] # cycles[k]

\* the dashboard left to its timer
LiveNext ==
  \/ Mount
  \/ TimerTick
  \/ Unmount
  \/ AccessorSettles
  \/ CycleFulfils
  \/ CycleRejects

\* every upstream request settles in the end, and the interval of a
\* mounted view fires again and again
LiveSpec ==
  /\ Init
  /\ [][LiveNext]_vars
  /\ \A k \in 1..MaxInFlight : WF_vars(CycleStep(k))
  /\ SF_vars(TimerTick)


----------------------------------------------------------------------------
(* Properties of the fetch layer, checked under FetchSpec *)

\* request i of the running accessor has ended in a network error or a
\* non-2xx status
RequestFailed(i) ==
  /\ fxResp[i] # NotSettled
  /\ \/ fxResp[i].net = "error"
     \/ fxResp[i].status < 200
     \/ fxResp[i].status > 299

\* request i was answered 2xx with a JSON array of candles (possibly empty)
CandlesReturned(i) ==
  /\ fxResp[i] # NotSettled
  /\ ~RequestFailed(i)
  /\ fxResp[i].parses
  /\ fxResp[i].body.type = "array"
  /\ \A n \in DOMAIN fxResp[i].body.elems : fxResp[i].body.elems[n].type = "array"

WindowLabels == << "1H", "4H", "24H", "7D" >>

ZeroWindow(label) ==
  [timeframe |-> label, high |-> Num(0), low |-> Num(0), rangePercent |-> Num(0)]

\* C1: when its upstream request fails with a network error or a non-2xx
\* status, the accessor returns its documented fallback and nothing is
\* thrown: fetchBTCPrice gives {price: 95000, changePercent: 0},
\* fetchGoldPrice gives {price: 2650, changePercent: 0}, fetchFundingRates
\* still returns its entries, fetchHighLow gives the zero entry for each
\* failed window, fetchChartData gives the empty list.
C1_FailedRequestGivesFallback ==
  /\ (fxFn = "btc" /\ RequestFailed(1))
       => fxRet = Fulfilled([price |-> Num(95000), changePercent |-> Num(0)])
  /\ (fxFn = "gold" /\ RequestFailed(1))
       => fxRet = Fulfilled([price |-> Num(2650), changePercent |-> Num(0)])
  /\ (fxFn = "funding" /\ RequestFailed(1))
       => /\ fxRet.state = "fulfilled"
          /\ fxRet.value[1].rate = Frac(1, 100)
  /\ fxFn = "highlow"
       => /\ (\A i \in 1..4 : RequestFailed(i))
               => fxRet = Fulfilled([i \in 1..4 |-> ZeroWindow(WindowLabels[i])])
          /\ fxRet.state = "fulfilled"
               => \A i \in 1..4 :
                    RequestFailed(i) => fxRet.value[i] = ZeroWindow(WindowLabels[i])
          /\ fxRet.state = "rejected"
               => \E i \in 1..4 : fxResp[i] # NotSettled /\ ~RequestFailed(i)
  /\ (/\ fxFn = "chart"
      /\ fxResp[1] # NotSettled
      /\ fxResp[2] # NotSettled
      /\ (RequestFailed(1) \/ RequestFailed(2)))
       => fxRet = Fulfilled(<< >>)

\* fetchHighLow has returned after all four of its requests failed
C1_Witness ==
  /\ fxFn = "highlow"
  /\ \A i \in 1..4 : RequestFailed(i)
  /\ fxRet.state = "fulfilled"

\* C2, as the specification states it: no accessor ever lets a failure out,
\* also when a 2xx response has an unexpected shape, so the promise an
\* accessor returns is never rejected.
C2_NoAccessorRejects == fxRet.state # "rejected"

\* C3, as the specification states it: for every numeric (high, low) read
\* from the candle, rangePercent is 0 if and only if the guard low == 0
\* applies and is (high - low) / low * 100 otherwise.
C3_RangeZeroOnlyForZeroLow ==
  (fxFn = "highlow" /\ fxRet.state = "fulfilled")
    => \A i \in 1..4 :
         LET e == fxRet.value[i]
         IN  (~IsNaN(e.high) /\ ~IsNaN(e.low))
               => IF e.low.num = 0
                  THEN e.rangePercent = Num(0)
                  ELSE e.rangePercent
                         = Frac((e.high.num * e.low.den - e.low.num * e.high.den) * 100
                                  * e.low.den,
                                e.high.den * e.low.den * e.low.num)

\* the candle fetchHighLow selects in the response of window i
LastCandle(i) == fxResp[i].body.elems[Len(fxResp[i].body.elems)]

\* C3 (amended): high and low are parsed from fields 2 and 3 of the last
\* candle; rangePercent is 0 whenever low is not greater than 0 (zero,
\* negative or not a number) and is (high - low) / low * 100 whenever low
\* is greater than 0, which is 0 for high == low.
C3_RangePercent ==
  (fxFn = "highlow" /\ fxRet.state = "fulfilled")
    => \A i \in 1..4 :
         LET e == fxRet.value[i]
         IN  /\ (CandlesReturned(i) /\ fxResp[i].body.elems # << >>)
                  => /\ e.high = StrToFloat(LastCandle(i).elems[3].str)
                     /\ e.low = StrToFloat(LastCandle(i).elems[4].str)
             /\ IF IsNaN(e.low) \/ e.low.num <= 0
                THEN e.rangePercent = Num(0)
                ELSE IF IsNaN(e.high)
                THEN IsNaN(e.rangePercent)
                ELSE e.rangePercent
                       = Frac((e.high.num * e.low.den - e.low.num * e.high.den) * 100
                                * e.low.den,
                              e.high.den * e.low.den * e.low.num)

\* one call returned a window with a negative low, one with high == low > 0
\* and one with high > low > 0
C3_Witness ==
  /\ fxFn = "highlow"
  /\ fxRet.state = "fulfilled"
  /\ \E i, j, k \in 1..4 :
       /\ ~IsNaN(fxRet.value[i].low) /\ fxRet.value[i].low.num < 0
       /\ fxRet.value[j].low = Num(100) /\ fxRet.value[j].high = Num(100)
       /\ fxRet.value[k].low = Num(100) /\ fxRet.value[k].high = Num(110)
       /\ fxRet.value[k].rangePercent = Num(10)

\* request i was answered 2xx with the empty list
EmptyReturned(i) == CandlesReturned(i) /\ fxResp[i].body.elems = << >>

\* C4: when the request of one window succeeds with an empty candle list,
\* the entry of that window is {high: 0, low: 0, rangePercent: 0} under
\* that window's label, and the entries of the other windows are what they
\* are whatever that window was answered.
C4_EmptyWindowGivesZeroEntry ==
  fxFn = "highlow"
    => \A i \in 1..4 :
         EmptyReturned(i)
           => /\ HighLowCallback(definitions[i], safeFetch(fxResp[i]))
                   = Fulfilled(ZeroWindow(WindowLabels[i]))
              /\ (\A j \in 1..4 : RequestFailed(j) \/ CandlesReturned(j))
                   => fxRet.state = "fulfilled"
              /\ fxRet.state = "fulfilled"
                   => /\ fxRet.value[i] = ZeroWindow(WindowLabels[i])
                      /\ \A r \in HighLowResponses :
                           LET other == fetchHighLow(
                                          [w \in Windows |->
                                             safeFetch(IF w = i THEN r ELSE fxResp[w])])
                           IN  other.state = "fulfilled"
                                 => \A j \in (1..4) \ {i} :
                                      other.value[j] = fxRet.value[j]

\* fetchHighLow has returned with the 4H window empty and the 1H window
\* read from a candle
C4_Witness ==
  /\ fxFn = "highlow"
  /\ fxRet.state = "fulfilled"
  /\ EmptyReturned(2)
  /\ fxRet.value[1].high = Num(110)
  /\ fxRet.value[2] = ZeroWindow("4H")

\* C5, as the specification states it: whichever of the four window
\* requests succeed (2xx) or fail and in whichever order they complete,
\* once all four have completed fetchHighLow returns exactly four entries
\* labelled 1H, 4H, 24H, 7D in that order.
C5_FourEntriesInWindowOrder ==
  (fxFn = "highlow" /\ \A i \in 1..4 : fxResp[i] # NotSettled)
    => /\ fxRet.state = "fulfilled"
       /\ DOMAIN fxRet.value = 1..4
       /\ \A i \in 1..4 : fxRet.value[i].timeframe = WindowLabels[i]

\* the open times of the candles request i returned
OpenTimes(i) ==
  { fxResp[i].body.elems[n].elems[1].val : n \in DOMAIN fxResp[i].body.elems }

\* the close of the secondary candle opened at `timestamp`
SecondaryClose(timestamp) ==
  LET n == CHOOSE n \in DOMAIN fxResp[2].body.elems :
             fxResp[2].body.elems[n].elems[1].val = timestamp
  IN  StrToFloat(fxResp[2].body.elems[n].elems[5].str)

\* C6, as the specification states it: with m primary candles of which k
\* have a secondary candle at the same timestamp, the output has m points
\* and exactly m - k of them carry the default value 2650.
C6_ExactlyUnmatchedCarryDefault ==
  (fxFn = "chart" /\ CandlesReturned(1) /\ CandlesReturned(2))
    => /\ fxRet.state = "fulfilled"
       /\ Len(fxRet.value) = Len(fxResp[1].body.elems)
       /\ Cardinality({ n \in DOMAIN fxRet.value : fxRet.value[n].xau = Num(2650) })
            = Cardinality(OpenTimes(1) \ OpenTimes(2))

\* C6 (amended): with m primary candles the output has m points, one per
\* primary candle in primary order; a point whose timestamp has no
\* secondary candle carries 2650, and so does a point whose secondary close
\* parses to 0 or to NaN; every other point carries its secondary close.
\* So at least m - k points carry 2650, not exactly m - k.
C6_UnmatchedCarryDefault ==
  (fxFn = "chart" /\ CandlesReturned(1) /\ CandlesReturned(2))
    => /\ fxRet.state = "fulfilled"
       /\ Len(fxRet.value) = Len(fxResp[1].body.elems)
       /\ \A n \in DOMAIN fxRet.value :
            LET ts == fxResp[1].body.elems[n].elems[1].val
                pt == fxRet.value[n]
            IN  /\ pt.timestamp = JNum(ts)
                /\ pt.btc = StrToFloat(fxResp[1].body.elems[n].elems[5].str)
                /\ IF ts \notin OpenTimes(2)
                   THEN pt.xau = Num(2650)
                   ELSE IF IsNaN(SecondaryClose(ts)) \/ SecondaryClose(ts) = Num(0)
                   THEN pt.xau = Num(2650)
                   ELSE pt.xau = SecondaryClose(ts)
       /\ Cardinality({ n \in DOMAIN fxRet.value : fxRet.value[n].xau = Num(2650) })
            >= Cardinality(OpenTimes(1) \ OpenTimes(2))

\* a chart of two points: the first has no secondary candle, the second has
\* one whose close is "0"; both carry 2650
C6_Witness ==
  /\ fxFn = "chart"
  /\ CandlesReturned(1) /\ CandlesReturned(2)
  /\ fxRet.state = "fulfilled"
  /\ Len(fxRet.value) = 2
  /\ Cardinality(OpenTimes(1) \ OpenTimes(2)) = 1
  /\ fxRet.value[1].timestamp.val \notin OpenTimes(2)
  /\ SecondaryClose(fxRet.value[2].timestamp.val) = Num(0)
  /\ fxRet.value[2].xau = Num(2650)


----------------------------------------------------------------------------
(* Properties of the App component, checked under Spec *)

InitialSnapshot ==
  << [price |-> Num(0), changePercent |-> Num(0)],
     [price |-> Num(0), changePercent |-> Num(0)],
     << >>, << >>, << >>, << >>, "" >>

\* what a cycle with time frame tf publishes when its requests are answered
\* by feed and it completes at clock reading t: btcData, goldData,
\* fundingData, highLowBtc, highLowGold, chartData, lastUpdated
CycleSnapshot(tf, feed, t) ==
  LET p == PromiseTable[tf][feed][Accessors]
  IN  << p.value[1], p.value[2], p.value[3], p.value[4], p.value[5], p.value[6],
         LocaleTimeString(t) >>

\* the snapshots a complete cycle with time frame tf can publish
CycleSnapshots(tf) ==
  { CycleSnapshot(tf, feed, t) :
      feed \in { f \in Feeds : PromiseTable[tf][f][Accessors].state = "fulfilled" },
      t \in Times }

\* C7: in every state the view can render, the seven snapshot fields
\* (btcData, goldData, fundingData, highLowBtc, highLowGold, chartData,
\* lastUpdated) all hold their initial values or all come from one
\* completed loadAllData cycle; no state mixes the fields of two cycles.
C7_SnapshotFromOneCycle ==
  \/ snapshot = InitialSnapshot
  \/ \E tf \in TimeFrameChoices : snapshot \in CycleSnapshots(tf)

\* the view shows the snapshot of a completed live cycle while a later
\* cycle is in flight, two of its calls settled
C7_Witness ==
  /\ mounted = "yes"
  /\ lastUpdated # ""
  /\ btcData.price = Num(97000)
  /\ goldData.price = Num(2700)
  /\ chartData # << >>
  /\ Len(cycles) = 1
  /\ cycles[1].settled = {"btc", "chart"}

\* C8: a snapshot field is written only in the step in which the last of
\* the six accessor calls of a cycle settles, whatever the order in which
\* they settle: no field changes while any call of the publishing cycle is
\* still pending.
C8_PublishedAfterAllSettle ==
  [][snapshot' # snapshot
       => \E k \in DOMAIN cycles :
            /\ Cardinality(Accessors \ cycles[k].settled) = 1
            /\ cycles' = RemoveAt(cycles, k)]_vars

\* a snapshot has been published, and of the cycle now in flight the chart
\* series and the gold high/low have settled before the prices
C8_Witness ==
  /\ mounted = "yes"
  /\ lastUpdated # ""
  /\ Len(cycles) = 1
  /\ cycles[1].settled = {"chart", "hlGold"}

\* cycle k ends in this step although its Promise.all cannot have fulfilled
CycleThrows(k) ==
  /\ cycles' = RemoveAt(cycles, k)
  /\ \A a \in Accessors \ cycles[k].settled : \A feed \in PendingUnder(k) :
       CyclePromise(Settle(k, a), feed).state # "fulfilled"

\* C9: when the orchestration of a cycle throws in a mounted component, no
\* snapshot field changes, loading is set back to false, and the timer
\* stays scheduled.
C9_ThrowKeepsSnapshot ==
  [][\A k \in DOMAIN cycles :
       (mounted = "yes" /\ CycleThrows(k))
         => /\ snapshot' = snapshot
            /\ loading' = FALSE
            /\ timers' = timers
            /\ timers' # << >>]_vars

\* the only cycle so far has thrown: nothing was published, loading is
\* false, the timer is scheduled
C9_Witness ==
  /\ mounted = "yes"
  /\ cycles = << >>
  /\ lastUpdated = ""
  /\ snapshot = InitialSnapshot
  /\ loading = FALSE
  /\ timers # << >>

\* C10, as the specification states it: when the last of two overlapping
\* cycles completes (a cycle is in flight while loading is already false
\* and a snapshot is on display, so a cycle that overlapped it has
\* completed), the published snapshot is the one of the cycle that
\* completes.
C10_LastCompletedWins ==
  [][(/\ mounted = "yes"
      /\ Len(cycles) = 1
      /\ loading = FALSE
      /\ lastUpdated # ""
      /\ cycles' = << >>)
       => snapshot' \in CycleSnapshots(cycles[1].tf)]_vars

\* the time frames captured by the timers that are scheduled
ActiveSchedules == { timers[i] : i \in DOMAIN timers }

\* C11, as the specification states it: the result of a cycle is applied to
\* the snapshot only if the schedule that started it is still active when
\* the cycle completes; a cycle whose schedule was torn down (its closure's
\* time frame is that of no scheduled timer) changes no snapshot field.
C11_StaleResultDiscarded ==
  [][snapshot' # snapshot
       => \E k \in DOMAIN cycles :
            /\ cycles' = RemoveAt(cycles, k)
            /\ cycles[k].tf \in ActiveSchedules]_vars

\* C12: once the effect's cleanup has run for the unmounted view, no timer
\* is scheduled and no step starts a loadAllData cycle.
C12_NoCycleAfterTeardown ==
  [][mounted' = "gone"
       => /\ timers' = << >>
          /\ Len(cycles') <= Len(cycles)]_vars

\* the view was unmounted while a cycle was in flight, which still is
C12_Witness ==
  /\ mounted = "gone"
  /\ timers = << >>
  /\ Len(cycles) = 1
  /\ loading = TRUE

\* the cycle a step has started
Started == cycles'[Len(cycles')]

\* C13: a change of the time frame starts a cycle in the same step, and
\* every cycle started by any step has the time frame selected after that
\* step, so its chart call requests that time frame's pair; after a change
\* from 1h to 7d that is interval 2h and limit 84 for both requests, never
\* 1m and 60.
C13_CyclesUseSelectedTimeFrame ==
  [][/\ timeFrame' # timeFrame => Len(cycles') = Len(cycles) + 1
     /\ Len(cycles') > Len(cycles)
          => /\ Started.tf = timeFrame'
             /\ Started.settled = {}
             /\ timeFrame' = "7d"
                  => \A i \in 1..2 :
                       /\ ChartReqs(Started.tf)[i].interval = "2h"
                       /\ ChartReqs(Started.tf)[i].limit = 84]_vars

\* the time frame was changed from 1h to 7d while the first cycle was in
\* flight; the cycle started by the change and the timer are those of 7d
C13_Witness ==
  /\ timeFrame = "7d"
  /\ timers = << "7d" >>
  /\ Len(cycles) = 2
  /\ cycles[1].tf = "1h"
  /\ cycles[2].tf = "7d"

\* C14: fetchChartData requests, for both symbols, the pair of its time
\* frame: 1h -> (1m, 60), 4h -> (5m, 48), 24h -> (15m, 96), 7d -> (2h, 84);
\* the four pairs are distinct.
C14_ChartParamsPerTimeFrame ==
  /\ fxFn = "chart"
       => LET pair == CASE fxArg.timeFrame = "1h"  -> << "1m", 60 >>
                        [] fxArg.timeFrame = "4h"  -> << "5m", 48 >>
                        [] fxArg.timeFrame = "24h" -> << "15m", 96 >>
                        [] fxArg.timeFrame = "7d"  -> << "2h", 84 >>
          IN  /\ Len(fxReqs) = 2
              /\ fxReqs[1].symbol = "BTCUSDT"
              /\ fxReqs[2].symbol = "PAXGUSDT"
              /\ \A i \in 1..2 :
                   /\ fxReqs[i].endpoint = "api/v3/klines"
                   /\ << fxReqs[i].interval, fxReqs[i].limit >> = pair
  /\ \A tf1, tf2 \in TimeFrames :
       tf1 # tf2
         => /\ ChartParams(tf1).interval # ChartParams(tf2).interval
            /\ ChartParams(tf1).limit # ChartParams(tf2).limit

\* fetchChartData(7d) has issued its two requests and got the answer to
\* the first
C14_Witness ==
  /\ fxFn = "chart"
  /\ fxArg.timeFrame = "7d"
  /\ fxReqs[2].interval = "2h"
  /\ fxResp[1] # NotSettled
  /\ fxResp[2] = NotSettled

\* what MarketChart renders for a mode: its series and its axes
ChartConfig(mode) == [series |-> SeriesShown(mode), axes |-> AxesShown(mode)]

\* C15: every chart mode selects exactly one configuration: combined shows
\* BTC on the left axis and gold on the right axis, with the right axis
\* shown; btc shows only BTC on the left axis, the right axis hidden; gold
\* shows only gold, bound to the left axis, the right axis hidden.  In no
\* mode is a series bound to an axis that is not rendered, and no mode
\* renders no series.
C15_ModeSelectsConfiguration ==
  /\ chartMode \in ChartModes
  /\ chartMode = "combined"
       => ChartConfig(chartMode) =
            [series |-> { [dataKey |-> "btc", yAxisId |-> "left"],
                          [dataKey |-> "xau", yAxisId |-> "right"] },
             axes   |-> {"left", "right"}]
  /\ chartMode = "btc"
       => ChartConfig(chartMode) =
            [series |-> { [dataKey |-> "btc", yAxisId |-> "left"] },
             axes   |-> {"left"}]
  /\ chartMode = "gold"
       => ChartConfig(chartMode) =
            [series |-> { [dataKey |-> "xau", yAxisId |-> "left"] },
             axes   |-> {"left"}]
  /\ \A s \in SeriesShown(chartMode) : s.yAxisId \in AxesShown(chartMode)
  /\ SeriesShown(chartMode) # {}

\* the gold mode was selected on a chart that has data to draw
C15_Witness ==
  /\ chartMode = "gold"
  /\ mounted = "yes"
  /\ chartData # << >>

\* C16: a step that changes the chart mode changes nothing else: the
\* snapshot, the time frame, the loading flag, the timer and the cycles in
\* flight stay as they are, so no cycle is started; and the snapshot is
\* written only by a step in which a cycle of loadAllData completes.
C16_ModeChangeOnlyChangesMode ==
  [][/\ chartMode' # chartMode
          => UNCHANGED <<snapshot, timeFrame, loading, timers, cycles, mounted, fetchVars>>
     /\ snapshot' # snapshot
          => /\ chartMode' = chartMode
             /\ \E k \in DOMAIN cycles : cycles' = RemoveAt(cycles, k)]_vars

\* the mode was changed after a cycle had published, while another cycle
\* is in flight
C16_Witness ==
  /\ chartMode = "btc"
  /\ lastUpdated # ""
  /\ cycles # << >>
  /\ loading = TRUE

\* C17: the list InfoPanel displays and the list passed to the analysis
\* panel are the gold list when the mode is gold and the BTC list when it
\* is combined or btc; they are selected by the mode alone, whatever else
\* the state holds.
C17_VolatilityFollowsMode ==
  /\ chartMode = "gold"
       => /\ displayHighLow(chartMode, highLowBtc, highLowGold) = highLowGold
          /\ volatility(chartMode, highLowBtc, highLowGold) = highLowGold
  /\ chartMode \in {"combined", "btc"}
       => /\ displayHighLow(chartMode, highLowBtc, highLowGold) = highLowBtc
          /\ volatility(chartMode, highLowBtc, highLowGold) = highLowBtc
  /\ \A mode \in ChartModes :
       volatility(mode, highLowBtc, highLowGold)
         = displayHighLow(mode, highLowBtc, highLowGold)

\* the gold mode is selected and the two lists published differ
C17_Witness ==
  /\ chartMode = "gold"
  /\ highLowGold # << >>
  /\ highLowGold # highLowBtc

\* C18: whenever the chart-data list is empty and a cycle is in flight,
\* the mounted MarketChart renders the loading placeholder.  Stated for the
\* states in which a cycle has already published, so that the cycle which
\* ended before the one in flight is one that completed normally.
C18_PlaceholderWhileFetching ==
  (mounted = "yes" /\ lastUpdated # "" /\ chartData = << >> /\ cycles # << >>)
    => RendersPlaceholder(loading, chartData)

----------------------------------------------------------------------------
(* Properties of the analysis panel, checked under PanelSpec *)

\* C19: without a credential the trigger is disabled in every state; an
\* analysis started all the same issues no generateContent call and leaves
\* none pending, and when it completes the text is the key-missing
\* message, which is neither of the two failure messages.
C19_NoKeyNoCall ==
  /\ [](Falsy(apiKey) => TriggerDisabled)
  /\ [][Falsy(apiKey)
          => /\ requests' = requests
             /\ \A k \in DOMAIN runs' : runs'[k].promise # Pending
             /\ (Len(runs') < Len(runs) /\ mounted = "yes")
                  => /\ analysis' = KeyMissingMessage
                     /\ analysis' \notin {CallFailedMessage, HandlerFailedMessage}]_vars

\* without a credential an analysis was started and has completed
C19_Witness ==
  /\ Falsy(apiKey)
  /\ mounted = "yes"
  /\ analysis = KeyMissingMessage
  /\ runs = << >>
  /\ requests = 0

\* C20: when handleAnalyze completes in the mounted panel isAnalyzing is
\* false, whatever the outcome; a generateContent call that rejected, for
\* quota or network, completes with the failure message as the text and
\* with the trigger enabled again.
C20_FailureIsRetriable ==
  /\ [](\A outcome \in Outcomes :
          ~outcome.ok
            => AnalysisText(Fulfilled(AnalysisResult(outcome))) = CallFailedMessage)
  /\ [][\A k \in DOMAIN runs :
          (runs' = RemoveAt(runs, k) /\ mounted = "yes")
            => /\ isAnalyzing' = FALSE
               /\ analysis' \in {KeyMissingMessage, NoSignalMessage, CallFailedMessage,
                                 "## LONG", "## SHORT"}
               /\ runs[k].promise = Fulfilled(JStr(CallFailedMessage))
                    => /\ analysis' = CallFailedMessage
                       /\ ~TriggerDisabled']_vars

\* a generateContent call has failed: the text is the failure message and
\* the trigger can be pressed again
C20_Witness ==
  /\ mounted = "yes"
  /\ requests = 1
  /\ runs = << >>
  /\ analysis = CallFailedMessage
  /\ isAnalyzing = FALSE
  /\ ~TriggerDisabled

\* C21: every start of an analysis clears the text, whatever it was; when
\* the analysis completes in the mounted panel the text is the one of that
\* run's outcome alone; and with a key the trigger is enabled again after
\* every completion.
C21_TriggerReplacesText ==
  [][/\ Len(runs') > Len(runs) => analysis' = ""
     /\ \A k \in DOMAIN runs :
          (runs' = RemoveAt(runs, k) /\ mounted = "yes")
            => /\ analysis' = AnalysisText(runs[k].promise)
               /\ ~Falsy(apiKey) => ~TriggerDisabled']_vars

\* the trigger was pressed a second time, after an analysis that had left a
\* text, and the second analysis has completed with an empty response
C21_Witness ==
  /\ mounted = "yes"
  /\ requests = 2
  /\ runs = << >>
  /\ analysis = NoSignalMessage

----------------------------------------------------------------------------
(* Further properties of the fetch layer, checked under FetchSpec *)

\* fetchFundingRates has returned one entry per venue, Binance then Bybit
OnePerVenue ==
  /\ fxRet.state = "fulfilled"
  /\ Len(fxRet.value) = 2
  /\ fxRet.value[1].exchange = "Binance"
  /\ fxRet.value[2].exchange = "Bybit"

\* C22, as the specification states it: once its request has settled,
\* fetchFundingRates has returned one entry per venue, Binance then Bybit,
\* and after a failed Binance fetch the Binance entry has the rate zero.
C22_FailedVenueGivesZeroEntry ==
  (fxFn = "funding" /\ fxResp[1] # NotSettled)
    => /\ OnePerVenue
       /\ RequestFailed(1) => fxRet.value[1].rate = Num(0)

\* C22: once its request has settled, fetchFundingRates has returned one
\* entry per venue, Binance then Bybit, whatever the response was; after a
\* failed Binance fetch the Binance entry is present with the default rate
\* 0.01, and the Bybit entry has a rate from 0.01 to 0.015.
C22_OneEntryPerVenue ==
  (fxFn = "funding" /\ fxResp[1] # NotSettled)
    => /\ OnePerVenue
       /\ RequestFailed(1) => fxRet.value[1].rate = Frac(1, 100)
       /\ fxRet.value[2].rate = FAdd(Frac(1, 100), FMul(fxArg.random, Frac(5, 1000)))
       /\ fxRet.value[2].rate.num * 1000 >= 10 * fxRet.value[2].rate.den
       /\ fxRet.value[2].rate.num * 1000 <= 15 * fxRet.value[2].rate.den

\* fetchFundingRates has returned after its Binance fetch failed
C22_Witness ==
  /\ fxFn = "funding"
  /\ RequestFailed(1)
  /\ OnePerVenue

\* C23, as the specification states it: no numeric field of a value an
\* accessor returns, which is what loadAllData publishes, is NaN: price and
\* change of the two tickers, the funding rates, high, low and range of
\* every window, the two prices of every chart point.
C23_NoNaNReturned ==
  fxRet.state = "fulfilled"
    => /\ fxFn \in {"btc", "gold"}
            => ~IsNaN(fxRet.value.price) /\ ~IsNaN(fxRet.value.changePercent)
       /\ fxFn = "funding"
            => \A i \in DOMAIN fxRet.value : ~IsNaN(fxRet.value[i].rate)
       /\ fxFn = "highlow"
            => \A i \in DOMAIN fxRet.value :
                 /\ ~IsNaN(fxRet.value[i].high)
                 /\ ~IsNaN(fxRet.value[i].low)
                 /\ ~IsNaN(fxRet.value[i].rangePercent)
       /\ fxFn = "chart"
            => \A i \in DOMAIN fxRet.value :
                 ~IsNaN(fxRet.value[i].btc) /\ ~IsNaN(fxRet.value[i].xau)

----------------------------------------------------------------------------
(* Progress of the dashboard, checked under LiveSpec *)

----------------------------------------------------------------------------
(* Further properties of the App component, checked under Spec *)

\* the chart lists a complete cycle with time frame tf can publish
ChartsFor(tf) == { s[6] : s \in CycleSnapshots(tf) }

\* C25, as the specification states it: when the last cycle in flight
\* completes while the snapshot on display is one of the selected time
\* frame, the chart data on display afterwards is still one fetched for the
\* selected time frame; a cycle of an earlier time frame does not replace
\* it.
C25_ChartOfSelectedTimeFrame ==
  [][(/\ mounted = "yes"
      /\ lastUpdated # ""
      /\ snapshot \in CycleSnapshots(timeFrame)
      /\ Len(cycles) = 1
      /\ cycles' = << >>)
       => chartData' \in ChartsFor(timeFrame')]_vars

\* C26, as the specification states it: in the mounted view loading is true
\* whenever a cycle is in flight.  Stated for the states in which a cycle
\* has already published, so that a cycle which ended before the one in
\* flight is one that completed normally.
C26_LoadingWhileInFlight ==
  (mounted = "yes" /\ lastUpdated # "" /\ cycles # << >>) => loading = TRUE

\* C27: at most one interval timer is active in any state: exactly one,
\* whose callback holds the selected time frame, while the view is mounted,
\* and none before and after; so a timer-driven cycle is always started by
\* that one timer, with the selected time frame.
C27_OneTimer ==
  /\ [](/\ Len(timers) <= 1
        /\ mounted = "yes" => timers = << timeFrame >>
        /\ mounted # "yes" => timers = << >>)
  /\ [][TimerTick
          => /\ timers = << timeFrame >>
             /\ cycles' = Append(cycles, [tf |-> timeFrame, settled |-> {}])]_vars

\* the time frame was changed to 7d and back to 1h: the effect has run
\* three times, the cycle started for 7d is still in flight
C27_Witness ==
  /\ timeFrame = "1h"
  /\ timers = << "1h" >>
  /\ Len(cycles) = 2
  /\ cycles[1].tf = "7d"
  /\ cycles[2].tf = "1h"

\* C29: a selection that leaves the time frame as it is, which is the
\* selection of the time frame already selected, changes no state field:
\* it starts no cycle and leaves the timer alone.
C29_SameTimeFrameIsNoOp ==
  [][(ChangeTimeFrame /\ timeFrame' = timeFrame) => UNCHANGED vars]_vars

\* 7d is selected, with its timer scheduled and room for a further cycle:
\* selecting 7d again is possible and would be seen if it started one
C29_Witness ==
  /\ mounted = "yes"
  /\ timeFrame = "7d"
  /\ timers = << "7d" >>
  /\ Len(cycles) = 1
  /\ loading = FALSE

----------------------------------------------------------------------------
(* Further properties of the analysis panel, checked under PanelSpec *)

\* C28: at most one run of handleAnalyze is in flight in any state, and
\* while one is, isAnalyzing is true and the trigger is disabled; a
\* generateContent call is issued only when no run is in flight, so the run
\* that completes is always the latest one started.
C28_OneAnalysisInFlight ==
  /\ [](/\ Len(runs) <= 1
        /\ runs # << >> => isAnalyzing /\ TriggerDisabled)
  /\ [][/\ requests' > requests => runs = << >> /\ Len(runs') = 1
        /\ Len(runs') < Len(runs) => runs' = << >>]_vars

\* the first call has completed and the second one, started by a further
\* press of the trigger, is in flight
C28_Witness ==
  /\ mounted = "yes"
  /\ requests = 2
  /\ Len(runs) = 1
  /\ runs[1].promise = Pending
  /\ isAnalyzing = TRUE

====
